---- MODULE Spec2Model ----
(***************************************************************************)
(* MTG Pocket: the pack-opening engine, the collection ledger, the points  *)
(* account and the carousel selection, as one state machine.               *)
(*                                                                         *)
(* Math.random() is modelled as an integer u in 0..RandDenom-1 standing    *)
(* for the real number u / RandDenom in [0, 1).                            *)
(***************************************************************************)
EXTENDS Integers, Sequences, FiniteSets, TLC

VARIABLES
    points,               \* state.data.points
    last,                 \* state.data.last (timestamp of the last regeneration)
    cards,                \* state.data.cards: setCode -> cardId -> record
    lastPack,             \* state.data.lastPack
    recentPacks,          \* state.data.recentPacks
    allCards,             \* state.allCards
    fullArtCards,         \* state.fullArtCards
    masterpieceCards,     \* state.masterpieceCards
    storySpotlightCards,  \* state.storySpotlightCards
    currentSet,           \* state.currentSet
    now,                  \* the wall clock, Date.now()
    nTicks,               \* number of timer ticks taken (bounds the clock)
    nOpens,               \* number of open-pack requests accepted (bounds the run)
    pendingOpens,         \* openPack calls suspended in `await startRipAnimation()`
    pendingLoads,         \* loadSet calls suspended in `await loadCompleteSetData()`
    lastOp,               \* the handler that ran last, with what it returned
    io,                   \* input and output of the pure function under test
    storage,              \* the document under STORAGE_KEY in localStorage
    quota                 \* "full" when localStorage.setItem throws, else "ok"

vars == <<points, last, cards, lastPack, recentPacks, allCards, fullArtCards,
          masterpieceCards, storySpotlightCards, currentSet, now, nTicks,
          nOpens, pendingOpens, pendingLoads, lastOp, io, storage, quota>>

data == <<points, last, cards, lastPack, recentPacks>>
pools == <<allCards, fullArtCards, masterpieceCards, storySpotlightCards>>
disk == <<storage, quota>>

\* state.data, the document save() writes
Stored ==
    [points |-> points, last |-> last, cards |-> cards, lastPack |-> lastPack,
     recentPacks |-> recentPacks]

(***************************************************************************)
(* Program constants (constants.js)                                        *)
(***************************************************************************)
PACK_COST == 6
INTERVAL == 3600000
COUNTDOWN_UPDATE_INTERVAL == 1000
\* probabilities as exact fractions: 0.015, 0.10, 0.25
GODPACK_CHANCE == [num |-> 15, den |-> 1000]
FULLART_BONUS_CHANCE == [num |-> 10, den |-> 100]
MASTERPIECE_CHANCE == [num |-> 25, den |-> 100]
RARITY_WEIGHTS == [common |-> 60, uncommon |-> 30, rare |-> 9, mythic |-> 1]
RARITY_THRESHOLDS == [mythic |-> 3, rare |-> 10, uncommon |-> 30]
CARD_SUFFIXES == [fullart |-> "_fullart", masterpiece |-> "_masterpiece"]
MTG_CARD_BACK == "https://files.mtg.wiki/Magic_card_back.jpg"

NULL == "null"              \* JavaScript null, where a set code is expected
Undefined == "undefined"    \* a missing property of a catalog card
NoCard == [null |-> TRUE]   \* getCard's null

(***************************************************************************)
(* Bounds of the model                                                     *)
(***************************************************************************)
MaxClicks == 4         \* clicks on the single-card view of one reveal
MaxTickSeq == 4        \* ticks of one sequence under SpecTick
MaxOpens == 2          \* accepted open-pack requests per run
MaxTicks == 1          \* timer ticks per run
\* resolution of Math.random(): 1000 steps per percent
RandDenom == 100 * 1000

(***************************************************************************)
(* The card catalog (external collaborator; api.js is not part of the      *)
(* sources).  A catalog card carries the Scryfall fields the code reads.   *)
(***************************************************************************)
Card(id, name, rarity, num, img) ==
    [id |-> id, name |-> name, rarity |-> rarity, collector_number |-> num,
     image_uris |-> img, card_faces |-> <<>>]

\* a double-faced card: no top-level image_uris, two faces
FacedCard(id, name, rarity, num, f1, f2) ==
    [id |-> id, name |-> name, rarity |-> rarity, collector_number |-> num,
     image_uris |-> Undefined, card_faces |-> <<f1, f2>>]

SetCodes == {"neo", "dmu"}

Catalog ==
    [s \in SetCodes |->
       CASE s = "neo" ->
              [main        |-> << Card("n1", "Island", "common", "1", "n1.jpg") >>,
               fullArt     |-> << Card("n7", "Island", "common", "7", "n7.jpg") >>,
               masterpiece |-> << Card("x9", "Sol Ring", "mythic", "9", "x9.jpg") >>,
               spotlight   |-> << >>]
         [] s = "dmu" ->
              [main        |-> << FacedCard("d2", "Delver", "uncommon", "2", "d2a.jpg", "d2b.jpg") >>,
               fullArt     |-> << >>,
               masterpiece |-> << Card("y9", "Mox", "mythic", "9", "y9.jpg") >>,
               spotlight   |-> << FacedCard("d2", "Delver", "uncommon", "2", "d2a.jpg", "d2b.jpg") >>]
         [] OTHER ->
              [main |-> << >>, fullArt |-> << >>, masterpiece |-> << >>, spotlight |-> << >>]]

(***************************************************************************)
(* utils.js                                                                *)
(***************************************************************************)
\* Math.random() < probability
randomChance(u, probability) == u * probability.den < probability.num * RandDenom

\* array[Math.floor(Math.random() * array.length)]
getRandomElement(array, u) == array[((u * Len(array)) \div RandDenom) + 1]

\* a roll whose thresholds are inclusive upper bounds
rollRarity_inclusive(u) ==
    IF u * 100 <= RARITY_THRESHOLDS.mythic * RandDenom THEN "mythic"
    ELSE IF u * 100 <= RARITY_THRESHOLDS.rare * RandDenom THEN "rare"
    ELSE IF u * 100 <= RARITY_THRESHOLDS.uncommon * RandDenom THEN "uncommon"
    ELSE "common"

\* roll = Math.random() * 100, compared with the cumulative thresholds
rollRarity(u) ==
    IF u * 100 < RARITY_THRESHOLDS.mythic * RandDenom THEN "mythic"
    ELSE IF u * 100 < RARITY_THRESHOLDS.rare * RandDenom THEN "rare"
    ELSE IF u * 100 < RARITY_THRESHOLDS.uncommon * RandDenom THEN "uncommon"
    ELSE "common"

getCardImages(card) ==
    IF card.image_uris # Undefined
    THEN [front |-> card.image_uris,
          back  |-> IF Len(card.card_faces) > 1 /\ card.card_faces[2] # Undefined
                    THEN card.card_faces[2] ELSE MTG_CARD_BACK]
    ELSE IF Len(card.card_faces) > 0
    THEN [front |-> IF card.card_faces[1] # Undefined
                    THEN card.card_faces[1] ELSE MTG_CARD_BACK,
          back  |-> IF Len(card.card_faces) > 1 /\ card.card_faces[2] # Undefined
                    THEN card.card_faces[2] ELSE MTG_CARD_BACK]
    ELSE [front |-> MTG_CARD_BACK, back |-> MTG_CARD_BACK]

\* array.filter(c => c.rarity === rarity)
RECURSIVE filterRarity(_, _)
filterRarity(array, rarity) ==
    IF array = << >> THEN << >>
    ELSE IF Head(array).rarity = rarity
         THEN << Head(array) >> \o filterRarity(Tail(array), rarity)
         ELSE filterRarity(Tail(array), rarity)

\* array.filter(x => x !== value)
RECURSIVE without(_, _)
without(array, value) ==
    IF array = << >> THEN << >>
    ELSE IF Head(array) # value
         THEN << Head(array) >> \o without(Tail(array), value)
         ELSE without(Tail(array), value)

\* array.some(sc => sc.id === id)
someId(array, id) == \E i \in 1..Len(array) : array[i].id = id

(***************************************************************************)
(* state.js: the ledger                                                    *)
(***************************************************************************)
\* state.data.cards[setCode]?.[cardId] || null
getCard(c, setCode, cardId) ==
    IF setCode \in DOMAIN c /\ cardId \in DOMAIN c[setCode]
    THEN c[setCode][cardId] ELSE NoCard

\* an addCard that counts a card once however often it is added
addCard_once(c, setCode, cardId, cardData) ==
    LET c1   == IF setCode \in DOMAIN c THEN c ELSE c @@ (setCode :> << >>)
        set1 == c1[setCode]
    IN  IF cardId \in DOMAIN set1 THEN c1
        ELSE [c1 EXCEPT ![setCode] = set1 @@ (cardId :> [cardData EXCEPT !.count = 1])]

\* creates the set's map and the record on first touch, then count++
addCard(c, setCode, cardId, cardData) ==
    LET c1   == IF setCode \in DOMAIN c THEN c ELSE c @@ (setCode :> << >>)
        set1 == c1[setCode]
        set2 == IF cardId \in DOMAIN set1 THEN set1 ELSE set1 @@ (cardId :> cardData)
        rec  == set2[cardId]
    IN  [c1 EXCEPT ![setCode] =
            [set2 EXCEPT ![cardId] = [rec EXCEPT !.count = rec.count + 1]]]

\* the points account
addPoints(pts, amount) == pts + amount

subtractPoints(pts, amount) == pts - amount

(* The key a card is stored under: the card's id for a regular card, the   *)
(* id + CARD_SUFFIXES[kind] for a full-art or masterpiece copy.            *)
Kinds == {"regular", "fullart", "masterpiece"}

\* an encoding that gives both special kinds the same suffix
variantKey_sameSuffix(id, kind) ==
    IF kind = "regular" THEN id ELSE id \o CARD_SUFFIXES.fullart

variantKey(id, kind) ==
    IF kind = "regular" THEN id ELSE id \o CARD_SUFFIXES[kind]

\* String.prototype.endsWith
endsWith(str, suffix) ==
    /\ Len(str) >= Len(suffix)
    /\ SubSeq(str, Len(str) - Len(suffix) + 1, Len(str)) = suffix

(* A value of the stored document that is not an object (null, a number,  *)
(* a string) is a record tagged js; objects are records without that tag.  *)
JsNull == [js |-> "null"]
JsNumber == [js |-> "number", v |-> 7]
JsString == [js |-> "string", v |-> "x"]

\* obj && typeof obj === 'object'
isValidObject(obj) == "js" \notin DOMAIN obj

(* migrateCard: a field that is undefined is a field the record lacks; a   *)
(* count that is not a number is modelled as a record without a count.     *)
\* a migration that sets the count of every record to 1
migrateCard_resetsCount(card, cardId) ==
    LET c1 == IF "fullart" \notin DOMAIN card
              THEN card @@ [fullart |-> endsWith(cardId, "_fullart")] ELSE card
        c2 == IF "backImg" \notin DOMAIN c1
              THEN c1 @@ [backImg |-> MTG_CARD_BACK] ELSE c1
        c3 == IF "count" \notin DOMAIN c2 THEN c2 @@ [count |-> 1]
              ELSE [c2 EXCEPT !.count = 1]
        c4 == IF "name" \notin DOMAIN c3 THEN c3 @@ [name |-> "Unknown Card"]
              ELSE IF c3.name = "" THEN [c3 EXCEPT !.name = "Unknown Card"] ELSE c3
        c5 == IF "img" \notin DOMAIN c4 THEN c4 @@ [img |-> MTG_CARD_BACK]
              ELSE IF c4.img = "" THEN [c4 EXCEPT !.img = MTG_CARD_BACK] ELSE c4
    IN  c5

migrateCard(card, cardId) ==
    LET c1 == IF "fullart" \notin DOMAIN card
              THEN card @@ [fullart |-> endsWith(cardId, "_fullart")] ELSE card
        c2 == IF "backImg" \notin DOMAIN c1
              THEN c1 @@ [backImg |-> MTG_CARD_BACK] ELSE c1
        c3 == IF "count" \notin DOMAIN c2 THEN c2 @@ [count |-> 1] ELSE c2
        c4 == IF "name" \notin DOMAIN c3 THEN c3 @@ [name |-> "Unknown Card"]
              ELSE IF c3.name = "" THEN [c3 EXCEPT !.name = "Unknown Card"] ELSE c3
        c5 == IF "img" \notin DOMAIN c4 THEN c4 @@ [img |-> MTG_CARD_BACK]
              ELSE IF c4.img = "" THEN [c4 EXCEPT !.img = MTG_CARD_BACK] ELSE c4
    IN  c5

\* a `changed` that is set whether or not a field was filled
migrateCardChanged_always(card) == TRUE

\* migrateCard's return value: `changed`, set where a field is filled
migrateCardChanged(card) ==
    \/ "fullart" \notin DOMAIN card
    \/ "backImg" \notin DOMAIN card
    \/ "count" \notin DOMAIN card
    \/ "name" \notin DOMAIN card \/ card.name = ""
    \/ "img" \notin DOMAIN card \/ card.img = ""

\* the two forEach loops: an entry that is not an object is skipped
migrateCards(c) ==
    [setCode \in DOMAIN c |->
       IF ~isValidObject(c[setCode]) THEN c[setCode]
       ELSE [cardId \in DOMAIN c[setCode] |->
               IF ~isValidObject(c[setCode][cardId]) THEN c[setCode][cardId]
               ELSE migrateCard(c[setCode][cardId], cardId)]]

migrateCardsChanged(c) ==
    \E setCode \in DOMAIN c :
       /\ isValidObject(c[setCode])
       /\ \E cardId \in DOMAIN c[setCode] :
             /\ isValidObject(c[setCode][cardId])
             /\ migrateCardChanged(c[setCode][cardId])

(* doc is the parsed document, state.data.  A cards that is missing or     *)
(* null, and a recentPacks that is not an array, are fields doc lacks.     *)
\* a migration that starts the history empty, whatever lastPack is
ensureRequiredFields_emptyHistory(doc) ==
    LET d1 == IF "cards" \notin DOMAIN doc THEN doc @@ [cards |-> << >>] ELSE doc
    IN  IF "recentPacks" \notin DOMAIN d1
        THEN d1 @@ [recentPacks |-> << >>]
        ELSE d1

ensureRequiredFields(doc) ==
    LET d1 == IF "cards" \notin DOMAIN doc THEN doc @@ [cards |-> << >>] ELSE doc
    IN  IF "recentPacks" \notin DOMAIN d1
        THEN d1 @@ [recentPacks |->
                      IF "lastPack" \in DOMAIN d1 /\ d1.lastPack \notin {NULL, ""}
                      THEN << d1.lastPack >> ELSE << >>]
        ELSE d1

ensureRequiredFieldsChanged(doc) ==
    "cards" \notin DOMAIN doc \/ "recentPacks" \notin DOMAIN doc

migrateData(doc) ==
    LET d == ensureRequiredFields(doc)
    IN  [d EXCEPT !.cards = migrateCards(d.cards)]

\* migrateData's needsSave
needsSave(doc) ==
    ensureRequiredFieldsChanged(doc) \/ migrateCardsChanged(ensureRequiredFields(doc).cards)

\* getDefaultData(), at time t
getDefaultData(t) ==
    [points |-> 0, last |-> t, cards |-> << >>, lastPack |-> NULL,
     recentPacks |-> << >>]

(* getSummary() throws a TypeError where Object.keys is given undefined or *)
(* null: a document without cards, or a set whose map is null.             *)
getSummaryThrows(doc) ==
    \/ "cards" \notin DOMAIN doc
    \/ \E setCode \in DOMAIN doc.cards :
          /\ ~isValidObject(doc.cards[setCode])
          /\ doc.cards[setCode].js = "null"

\* nothing is stored under STORAGE_KEY
NoDoc == [none |-> TRUE]

(* initializeState(), at time t, on the stored document st: the data it    *)
(* leaves in state.data, whether the catch block or the else branch set    *)
(* the defaults, and whether migrateData called save().                    *)
initializeState(st, t) ==
    IF st = NoDoc \/ getSummaryThrows(st)
    THEN [data |-> getDefaultData(t), defaults |-> TRUE, saves |-> FALSE]
    ELSE [data |-> migrateData(st), defaults |-> FALSE, saves |-> needsSave(st)]

\* a write that leaves the ledger out of the document
save_withoutCards(doc, st, q) ==
    IF q = "full" THEN st ELSE [doc EXCEPT !.cards = << >>]

(* save(): localStorage.setItem of the whole state.data inside try/catch;  *)
(* what is stored afterwards, st being what was stored before.             *)
save(doc, st, q) ==
    IF q = "full" THEN st ELSE doc

\* a history update that does not remove the set's earlier entry
updateRecentPacks_noDedup(recent, setCode) ==
    LET r == << setCode >> \o recent
    IN  IF Len(r) > 3 THEN SubSeq(r, 1, 3) ELSE r

\* setLastPack's history update: remove, unshift, slice(0, 3)
updateRecentPacks(recent, setCode) ==
    LET r == << setCode >> \o without(recent, setCode)
    IN  IF Len(r) > 3 THEN SubSeq(r, 1, 3) ELSE r

(***************************************************************************)
(* Random inputs: the values Math.random() is drawn from.  They sit on     *)
(* both sides of every threshold the code compares a draw with.            *)
(***************************************************************************)
RollSamples == {0, 2999, 3000, 9999, 10000, 29999, 30000, RandDenom - 1}
PickSamples == {0, RandDenom \div 2, RandDenom - 1}
GateSamples == {0, 1499, 1500, 9999, 10000, 24999, 25000, RandDenom - 1}

(***************************************************************************)
(* pack-opening.js                                                         *)
(***************************************************************************)
\* a funds check that is off by one
canOpenPack_offByOne(freeMode, pts) == IF freeMode THEN TRUE ELSE pts >= PACK_COST - 1

canOpenPack(freeMode, pts) == IF freeMode THEN TRUE ELSE pts >= PACK_COST

\* a deduction that ignores free mode
deductPoints_always(freeMode, pts) == subtractPoints(pts, PACK_COST)

\* openPack: `if (!freeMode) subtractPoints(PACK_COST)`
deductPoints(freeMode, pts) ==
    IF ~freeMode THEN subtractPoints(pts, PACK_COST) ELSE pts

\* an ownership test that looks at the set only
isCardOwned_bySet(c, setCode, cardId) == setCode \in DOMAIN c

isCardOwned(c, setCode, cardId) == getCard(c, setCode, cardId) # NoCard

\* addCard, then the record as stored (with the incremented count)
ensureCardExists(c, setCode, cardId, cardData) ==
    LET c2 == addCard(c, setCode, cardId, cardData)
    IN  [cards |-> c2, card |-> getCard(c2, setCode, cardId)]

\* the seed records handed to ensureCardExists
regularSeed(card, isSpotlight) ==
    [name |-> card.name, rarity |-> card.rarity,
     img |-> getCardImages(card).front, backImg |-> getCardImages(card).back,
     count |-> 0, fullart |-> FALSE, spotlight |-> isSpotlight,
     collectorNum |-> card.collector_number]

fullartSeed(card) ==
    [name |-> card.name, rarity |-> card.rarity,
     img |-> getCardImages(card).front, backImg |-> getCardImages(card).back,
     count |-> 0, fullart |-> TRUE,
     collectorNum |-> card.collector_number]

masterpieceSeed(card) ==
    [name |-> card.name, rarity |-> card.rarity,
     img |-> getCardImages(card).front, backImg |-> getCardImages(card).back,
     count |-> 0, masterpiece |-> TRUE,
     collectorNum |-> card.collector_number]

(* A slot that pushes a copy of the seed object instead of the record that *)
(* getCard returns: addCard stores the seed object itself when the key is  *)
(* new, so the copy has count 1 then, and the seed's count 0 otherwise.    *)
pushSlot_pushesSeed(st, setCode, cardId, seed, flags) ==
    LET isNew == ~isCardOwned(st.cards, setCode, cardId)
        e     == ensureCardExists(st.cards, setCode, cardId, seed)
        pushed == IF isNew THEN e.card ELSE seed
    IN  [st EXCEPT !.cards = e.cards,
                   !.pack  = Append(st.pack, flags @@ [isNew |-> isNew] @@ pushed),
                   !.log   = Append(st.log, [setCode |-> setCode, cardId |-> cardId])]

(* One slot: isNew is read, the card is committed, and the stored record   *)
(* with the slot's flags is pushed.  st = [cards, pack, log, got6thCard];  *)
(* log is the sequence of addCard calls made, in order.                    *)
pushSlot(st, setCode, cardId, seed, flags) ==
    LET isNew == ~isCardOwned(st.cards, setCode, cardId)
        e     == ensureCardExists(st.cards, setCode, cardId, seed)
    IN  [st EXCEPT !.cards = e.cards,
                   !.pack  = Append(st.pack, flags @@ [isNew |-> isNew] @@ e.card),
                   !.log   = Append(st.log, [setCode |-> setCode, cardId |-> cardId])]

\* a god-pack slot committed under the plain card id
godSlot_plainKey(st, setCode, card) ==
    pushSlot(st, setCode, card.id, fullartSeed(card), [isGodPack |-> TRUE])

\* body of the god-pack loop
godSlot(st, setCode, card) ==
    pushSlot(st, setCode, card.id \o CARD_SUFFIXES.fullart,
                 fullartSeed(card), [isGodPack |-> TRUE])

\* the while loop over fallbackRarities
RECURSIVE fallbackLoop(_, _, _, _)
fallbackLoop(all, rarity, fallbackRarities, attempts) ==
    LET pool == filterRarity(all, rarity)
    IN  IF Len(pool) = 0 /\ attempts < Len(fallbackRarities)
        THEN fallbackLoop(all, fallbackRarities[attempts + 1], fallbackRarities,
                          attempts + 1)
        ELSE [rarity |-> rarity, pool |-> pool]

\* a fallback that tries the rarest tier first
slotPool_rarestFirst(all, rolled) ==
    fallbackLoop(all, rolled,
                 without(<< "mythic", "rare", "uncommon", "common" >>, rolled), 0)

\* the pool a regular slot draws from, for a rolled rarity
slotPool(all, rolled) ==
    fallbackLoop(all, rolled,
                 without(<< "common", "uncommon", "rare", "mythic" >>, rolled), 0)

\* getRandomElement(pool), or NoCard when the pool is empty after the fallback
pickFrom(pool, uPick) ==
    IF Len(pool) = 0 THEN NoCard ELSE getRandomElement(pool, uPick)

\* a regular slot's draw: rollRarity, the fallback, the pick
regularDraw(all, uRoll, uPick) ==
    pickFrom(slotPool(all, rollRarity(uRoll)).pool, uPick)

\* every card a regular slot can draw, over the sampled rolls and picks
regularDraws(all) ==
    UNION { { pickFrom(slotPool(all, rolled).pool, u) : u \in PickSamples } :
              rolled \in { rollRarity(r) : r \in RollSamples } }

\* body of the regular loop: `continue` when every pool is empty
regularSlot(st, setCode, spotlight, card) ==
    IF card = NoCard THEN st
    ELSE pushSlot(st, setCode, card.id,
                  regularSeed(card, someId(spotlight, card.id)), << >>)

\* the 6th card
bonusSlot(st, setCode, card) ==
    LET st2  == pushSlot(st, setCode, card.id \o CARD_SUFFIXES.fullart,
                         fullartSeed(card), [isBonus |-> TRUE])
    IN  [st2 EXCEPT !.got6thCard = TRUE]

\* the 7th card
secretSlot(st, setCode, card) ==
    pushSlot(st, setCode, card.id \o CARD_SUFFIXES.masterpiece,
                 masterpieceSeed(card), [isSecret |-> TRUE])

(* generatePack, as the set of its results over all random draws.  Each    *)
(* stage maps the set of states reached so far through one more draw.      *)
RECURSIVE godLoop(_, _, _, _)
godLoop(S, setCode, fullArt, i) ==
    IF i >= 5 THEN S
    ELSE LET picked == { getRandomElement(fullArt, u) : u \in PickSamples }
         IN  godLoop({ godSlot(st, setCode, card) : st \in S, card \in picked },
                     setCode, fullArt, i + 1)

\* a loop in which a slot that finds every tier empty has no result
RECURSIVE regularLoop_failsOnEmptyPools(_, _, _, _, _)
regularLoop_failsOnEmptyPools(S, setCode, drawn, spotlight, i) ==
    IF i >= 5 THEN S
    ELSE regularLoop_failsOnEmptyPools(
           { regularSlot(st, setCode, spotlight, card) :
               st \in S, card \in drawn \ { NoCard } },
           setCode, drawn, spotlight, i + 1)

RECURSIVE regularLoop(_, _, _, _, _)
regularLoop(S, setCode, drawn, spotlight, i) ==
    IF i >= 5 THEN S
    ELSE regularLoop({ regularSlot(st, setCode, spotlight, card) :
                         st \in S, card \in drawn },
                     setCode, drawn, spotlight, i + 1)

bonusGate(S, setCode, fullArt, gates) ==
    LET fired == { randomChance(g, FULLART_BONUS_CHANCE) /\ Len(fullArt) > 0 :
                     g \in gates }
    IN  UNION { IF f
                THEN { bonusSlot(st, setCode, card) :
                         card \in { getRandomElement(fullArt, u) : u \in PickSamples } }
                ELSE { st }
              : st \in S, f \in fired }

\* a secret gate that does not ask for the 6th card
secretGate_ungated(S, setCode, masterpiece, gates) ==
    LET fired == { randomChance(g, MASTERPIECE_CHANCE) /\ Len(masterpiece) > 0 :
                     g \in gates }
    IN  UNION { IF f
                THEN { secretSlot(st, setCode, card) :
                         card \in { getRandomElement(masterpiece, u) : u \in PickSamples } }
                ELSE { st }
              : st \in S, f \in fired }

secretGate(S, setCode, masterpiece, gates) ==
    LET fired == { randomChance(g, MASTERPIECE_CHANCE) /\ Len(masterpiece) > 0 :
                     g \in gates }
    IN  UNION { IF st.got6thCard /\ f
                THEN { secretSlot(st, setCode, card) :
                         card \in { getRandomElement(masterpiece, u) : u \in PickSamples } }
                ELSE { st }
              : st \in S, f \in fired }

generatePack(c, setCode, all, fullArt, masterpiece, spotlight) ==
    LET st0 == [cards |-> c, pack |-> << >>, log |-> << >>, got6thCard |-> FALSE]
        isGodPack == { randomChance(g, GODPACK_CHANCE) /\ Len(fullArt) > 0 :
                         g \in GateSamples }
    IN  UNION { IF god
                THEN godLoop({ st0 }, setCode, fullArt, 0)
                ELSE secretGate(
                       bonusGate(regularLoop({ st0 }, setCode, regularDraws(all),
                                             spotlight, 0),
                                 setCode, fullArt, GateSamples),
                       setCode, masterpiece, GateSamples)
              : god \in isGodPack }

(***************************************************************************)
(* pack-carousel.js                                                        *)
(***************************************************************************)
\* a projection that does not take the current set out of the history
buildDisplayArray_noFilter(current, recent) ==
    LET center == current
        uniqueRecent == recent
    IN  IF Len(uniqueRecent) = 0 THEN << center, center, center >>
        ELSE IF Len(uniqueRecent) = 1
             THEN << uniqueRecent[1], center, uniqueRecent[1] >>
             ELSE << uniqueRecent[1], center, uniqueRecent[2] >>

\* [left, center, right]
buildDisplayArray(current, recent) ==
    LET center == current
        uniqueRecent == without(recent, center)
    IN  IF Len(uniqueRecent) = 0 THEN << center, center, center >>
        ELSE IF Len(uniqueRecent) = 1
             THEN << uniqueRecent[1], center, uniqueRecent[1] >>
             ELSE << uniqueRecent[1], center, uniqueRecent[2] >>

(***************************************************************************)
(* The state after init(): data loaded (here a fresh ledger and history,   *)
(* with the saved points), the first set selected and loaded, handlers     *)
(* attached.                                                               *)
(***************************************************************************)
InitPoints == {5}
FirstSet == "neo"
TickDelays == {COUNTDOWN_UPDATE_INTERVAL}

Op(name, freeMode, pack, log) ==
    [op |-> name, freeMode |-> freeMode, pack |-> pack, log |-> log]

\* a handler other than openPack: nothing is returned
NoOp == Op("none", FALSE, << >>, << >>)

NoOut == [none |-> TRUE]

NoIo == [fn |-> "none", arg |-> [none |-> TRUE], out |-> NoOut]

Init ==
    /\ points \in InitPoints
    /\ last = 0
    /\ cards = << >>
    /\ lastPack = NULL
    /\ recentPacks = << >>
    /\ currentSet = FirstSet
    /\ allCards = Catalog[FirstSet].main
    /\ fullArtCards = Catalog[FirstSet].fullArt
    /\ masterpieceCards = Catalog[FirstSet].masterpiece
    /\ storySpotlightCards = Catalog[FirstSet].spotlight
    /\ now = INTERVAL - COUNTDOWN_UPDATE_INTERVAL
    /\ nTicks = 0
    /\ nOpens = 0
    /\ pendingOpens = << >>
    /\ pendingLoads = {}
    /\ lastOp = NoOp
    /\ io = NoIo
    /\ storage = Stored
    /\ quota = "ok"

(* A suspended openPack call: its freeMode argument, and the setCode of    *)
(* the 'openPack' event's detail, which is the set that was current when   *)
(* the event was dispatched (the listener logs it and does not use it).    *)
OpenRequest(freeMode, setCode) == [freeMode |-> freeMode, setCode |-> setCode]

(***************************************************************************)
(* The 'openPack' event (the button, or a click on the center pack), up to *)
(* the await in openPack: the funds check, then the rip animation starts.  *)
(* A refused call returns undefined and the listener only re-renders.      *)
(***************************************************************************)
OpenPackRequest(freeMode) ==
    /\ IF canOpenPack(freeMode, points)
       THEN /\ nOpens < MaxOpens
            /\ pendingOpens' = Append(pendingOpens, OpenRequest(freeMode, currentSet))
            /\ nOpens' = nOpens + 1
            /\ lastOp' = NoOp
       ELSE /\ UNCHANGED <<pendingOpens, nOpens>>
            /\ lastOp' = Op("refused", freeMode, << >>, << >>)
    /\ UNCHANGED <<data, pools, currentSet, now, nTicks, pendingLoads, io, disk>>

(***************************************************************************)
(* The rip animation's timer fires (timers of equal delay fire in the      *)
(* order they were set) and openPack runs to its end: the deduction,       *)
(* generatePack on the set that is current now, setLastPack, save.         *)
(***************************************************************************)
OpenPackResume ==
    /\ pendingOpens # << >>
    /\ LET freeMode == Head(pendingOpens).freeMode
       IN  /\ points' = deductPoints(freeMode, points)
           /\ \E out \in generatePack(cards, currentSet, allCards, fullArtCards,
                                      masterpieceCards, storySpotlightCards) :
                 /\ cards' = out.cards
                 /\ lastOp' = Op("opened", freeMode, out.pack, out.log)
           /\ lastPack' = currentSet
           /\ recentPacks' = updateRecentPacks(recentPacks, currentSet)
    /\ pendingOpens' = Tail(pendingOpens)
    /\ UNCHANGED <<last, pools, currentSet, now, nTicks, nOpens, pendingLoads, io,
                   quota>>
    /\ storage' = save(Stored', storage, quota)

(***************************************************************************)
(* tick(): the interval timer, at a time `delay` after the previous tick.  *)
(***************************************************************************)
\* the regeneration in tick(), at time t: the points and timestamp it leaves
\* a regeneration that restarts the interval at the time of the tick
tick_restartsInterval(pts, lastTimestamp, t) ==
    LET hoursElapsed == (t - lastTimestamp) \div INTERVAL
    IN  IF hoursElapsed > 0
        THEN [points |-> addPoints(pts, hoursElapsed), last |-> t]
        ELSE [points |-> pts, last |-> lastTimestamp]

tick(pts, lastTimestamp, t) ==
    LET hoursElapsed == (t - lastTimestamp) \div INTERVAL
    IN  IF hoursElapsed > 0
        THEN [points |-> addPoints(pts, hoursElapsed),
              last   |-> lastTimestamp + hoursElapsed * INTERVAL]
        ELSE [points |-> pts, last |-> lastTimestamp]

\* the handler, a time `delay` after the previous tick
TickBody(delay) ==
    /\ nTicks' = nTicks + 1
    /\ now' = now + delay
    /\ points' = tick(points, last, now').points
    /\ last' = tick(points, last, now').last
    /\ lastOp' = NoOp
    /\ UNCHANGED <<cards, lastPack, recentPacks, pools, currentSet, nOpens,
                   pendingOpens, pendingLoads, io, quota>>
    /\ storage' = IF (now' - last) \div INTERVAL > 0
                  THEN save(Stored', storage, quota) ELSE storage

Tick(delay) == nTicks < MaxTicks /\ TickBody(delay)

(***************************************************************************)
(* setSelect.onchange: setCurrentSet, then loadSet, which reads the        *)
(* current set and suspends in the fetch of that set's cards.              *)
(***************************************************************************)
DropdownChange(setCode) ==
    /\ setCode # currentSet
    /\ setCode \notin pendingLoads
    /\ currentSet' = setCode
    /\ pendingLoads' = pendingLoads \cup {setCode}
    /\ lastOp' = NoOp
    /\ UNCHANGED <<data, pools, now, nTicks, nOpens, pendingOpens, io, disk>>

\* the fetch of loadSet returns: updateCardsData with the fetched set's pools
LoadComplete(setCode) ==
    /\ setCode \in pendingLoads
    /\ pendingLoads' = pendingLoads \ {setCode}
    /\ allCards' = Catalog[setCode].main
    /\ fullArtCards' = Catalog[setCode].fullArt
    /\ masterpieceCards' = Catalog[setCode].masterpiece
    /\ storySpotlightCards' = Catalog[setCode].spotlight
    /\ lastOp' = NoOp
    /\ UNCHANGED <<data, currentSet, now, nTicks, nOpens, pendingOpens, io, disk>>

(***************************************************************************)
(* A click on a side pack of the carousel: rotateTo(setCode).  The         *)
(* 'packSelected' event it dispatches has no listener.                     *)
(***************************************************************************)
\* a side click that also touches the history with the slot's set
RotateTo_touchesHistory(position) ==
    /\ LET setCode == buildDisplayArray(currentSet, recentPacks)[position]
       IN  /\ currentSet' = setCode
           /\ recentPacks' = updateRecentPacks(recentPacks, setCode)
    /\ lastOp' = Op("rotated", FALSE, << >>, << >>)
    /\ UNCHANGED <<points, last, cards, lastPack, pools, now, nTicks, nOpens,
                   pendingOpens, pendingLoads, io, disk>>

RotateTo(position) ==
    /\ LET setCode == buildDisplayArray(currentSet, recentPacks)[position]
       IN  currentSet' = setCode
    /\ lastOp' = Op("rotated", FALSE, << >>, << >>)
    /\ UNCHANGED <<data, pools, now, nTicks, nOpens, pendingOpens, pendingLoads, io,
                   disk>>

(***************************************************************************)
(* The page is reloaded and init() runs to its end: initializeState on the *)
(* stored document, loadSets and loadSet for the last opened set or the    *)
(* first of the list, and the timer's initial tick().  The suspended calls *)
(* of the old page are gone.                                               *)
(***************************************************************************)
Reload ==
    \E loaded \in { initializeState(storage, now) } :
    LET doc        == loaded.data
        initialSet == IF doc.lastPack # NULL THEN doc.lastPack ELSE FirstSet
    IN  /\ points' = tick(doc.points, doc.last, now).points
        /\ last' = tick(doc.points, doc.last, now).last
        /\ cards' = doc.cards
        /\ lastPack' = doc.lastPack
        /\ recentPacks' = doc.recentPacks
        /\ currentSet' = initialSet
        /\ allCards' = Catalog[initialSet].main
        /\ fullArtCards' = Catalog[initialSet].fullArt
        /\ masterpieceCards' = Catalog[initialSet].masterpiece
        /\ storySpotlightCards' = Catalog[initialSet].spotlight
        /\ pendingOpens' = << >>
        /\ pendingLoads' = {}
        /\ lastOp' = NoOp
        /\ UNCHANGED <<now, nTicks, nOpens, io, quota>>
        /\ storage' = IF loaded.saves \/ (now - doc.last) \div INTERVAL > 0
                      THEN save(Stored', storage, quota) ELSE storage

Next ==
    \/ \E freeMode \in BOOLEAN : OpenPackRequest(freeMode)
    \/ OpenPackResume
    \/ \E delay \in TickDelays : Tick(delay)
    \/ \E setCode \in SetCodes : DropdownChange(setCode)
    \/ \E setCode \in SetCodes : LoadComplete(setCode)
    \/ \E position \in {1, 3} : RotateTo(position)
    \/ Reload

Spec == Init /\ [][Next]_vars

(***************************************************************************)
(* The pack generator over the catalogs a set can have: one card of each   *)
(* rarity tier and one of a rarity outside the tiers, any of them absent;  *)
(* up to two full-art cards; at most one masterpiece.  An open-pack call   *)
(* has passed its funds check and is suspended in the rip animation.       *)
(***************************************************************************)
TierCards ==
    << Card("c1", "Plains", "common", "1", "c1.jpg"),
       Card("u1", "Opt", "uncommon", "2", "u1.jpg"),
       Card("r1", "Fable", "rare", "3", "r1.jpg"),
       Card("m1", "Sheoldred", "mythic", "4", "m1.jpg"),
       Card("s1", "Lotus", "special", "5", "s1.jpg") >>

MainPools ==
    { LET keep(card) == card.id \in ids IN SelectSeq(TierCards, keep) :
        ids \in SUBSET { TierCards[i].id : i \in 1..Len(TierCards) } }

FullArtPools ==
    { << >>,
      << Card("f1", "Plains", "common", "11", "f1.jpg") >>,
      << Card("f1", "Plains", "common", "11", "f1.jpg"),
         Card("f2", "Fable", "rare", "12", "f2.jpg") >> }

MasterpiecePools == { << >>, << Card("p1", "Sol Ring", "mythic", "21", "p1.jpg") >> }

InitPack ==
    /\ points = PACK_COST
    /\ last = 0
    /\ cards = << >>
    /\ lastPack = NULL
    /\ recentPacks = << >>
    /\ currentSet = FirstSet
    /\ allCards \in MainPools
    /\ fullArtCards \in FullArtPools
    /\ masterpieceCards \in MasterpiecePools
    /\ storySpotlightCards = << TierCards[1] >>
    /\ now = INTERVAL - COUNTDOWN_UPDATE_INTERVAL
    /\ nTicks = 0
    /\ nOpens = 1
    /\ pendingOpens = << OpenRequest(FALSE, FirstSet) >>
    /\ pendingLoads = {}
    /\ lastOp = NoOp
    /\ io = NoIo
    /\ storage = Stored
    /\ quota = "ok"

NextPack == OpenPackResume

SpecPack == InitPack /\ [][NextPack]_vars

(* The suspended call is resumed by the 800 ms timer of startRipAnimation, *)
(* which always fires while the page stays open; the rest of openPack runs *)
(* to the end in the same task.                                            *)
\* the main pools whose cards are all of one tier: no card at all, cards of
\* one of the four tiers (the fallback reaches it from each other roll), or
\* cards of no tier that a roll can give (every slot is dropped)
LivePools ==
    { pool \in MainPools :
        \A i, j \in 1..Len(pool) : pool[i].rarity = pool[j].rarity }

InitPackLive == InitPack /\ allCards \in LivePools

SpecPackLive == InitPackLive /\ [][NextPack]_vars /\ WF_vars(OpenPackResume)

(***************************************************************************)
(* The pure functions of the draw, applied to an input: rollRarity to a    *)
(* value of Math.random(), and a regular slot's draw to a main pool, a     *)
(* roll and a pick, with the slot counts the regular loop gives that pool. *)
(***************************************************************************)
(* Card ids are the ids Scryfall issues (UUIDs: hexadecimal digits and     *)
(* hyphens); every key of the ledger is built from the id of a card of a   *)
(* loaded pool.  The sample has ids that are prefixes and suffixes of one  *)
(* another.                                                                *)
\* the sets opened one after the other, from an empty history
MaxTouches == 5
HistorySets == {"neo", "dmu", "one", "mom"}
OpenSequences == UNION { [1..n -> HistorySets] : n \in 0..MaxTouches }

\* the histories the carousel is given: up to 3 set codes
Histories == UNION { [1..n -> HistorySets] : n \in 0..3 }

BaseIds == {"a", "af", "a-f", "f", "fa", "a-fa11a27"}

PureInputs ==
    [fn : {"rollRarity"}, arg : [u : 0..(RandDenom - 1)], out : {NoOut}]
    \cup
    [fn : {"regularDraw"},
     arg : [all : MainPools, uRoll : RollSamples, uPick : PickSamples],
     out : {NoOut}]
    \cup
    [fn : {"variantKey"},
     arg : [b1 : BaseIds, k1 : Kinds, b2 : BaseIds, k2 : Kinds],
     out : {NoOut}]
    \cup
    [fn : {"setLastPack"}, arg : [toOpen : OpenSequences],
     out : {[opened |-> << >>]}]
    \cup
    [fn : {"buildDisplayArray"},
     arg : [current : HistorySets, recent : Histories],
     out : {NoOut}]

InitPure ==
    /\ points = 0
    /\ last = 0
    /\ cards = << >>
    /\ lastPack = NULL
    /\ recentPacks = << >>
    /\ currentSet = FirstSet
    /\ allCards = Catalog[FirstSet].main
    /\ fullArtCards = Catalog[FirstSet].fullArt
    /\ masterpieceCards = Catalog[FirstSet].masterpiece
    /\ storySpotlightCards = Catalog[FirstSet].spotlight
    /\ now = INTERVAL - COUNTDOWN_UPDATE_INTERVAL
    /\ nTicks = 0
    /\ nOpens = 0
    /\ pendingOpens = << >>
    /\ pendingLoads = {}
    /\ lastOp = NoOp
    /\ io \in PureInputs
    /\ storage = Stored
    /\ quota = "ok"

ApplyRollRarity ==
    /\ io.fn = "rollRarity"
    /\ io.out = NoOut
    /\ io' = [io EXCEPT !.out = [rarity |-> rollRarity(io.arg.u)]]
    /\ UNCHANGED <<data, pools, currentSet, now, nTicks, nOpens, pendingOpens,
                   pendingLoads, lastOp, disk>>

ApplyRegularDraw ==
    /\ io.fn = "regularDraw"
    /\ io.out = NoOut
    /\ LET all == io.arg.all
           st0 == [cards |-> << >>, pack |-> << >>, log |-> << >>,
                   got6thCard |-> FALSE]
       IN  io' = [io EXCEPT !.out =
                    [rarity |-> slotPool(all, rollRarity(io.arg.uRoll)).rarity,
                     card   |-> regularDraw(all, io.arg.uRoll, io.arg.uPick),
                     slots  |-> { Len(st.pack) :
                                    st \in regularLoop({ st0 }, FirstSet,
                                                       regularDraws(all), << >>, 0) }]]
    /\ UNCHANGED <<data, pools, currentSet, now, nTicks, nOpens, pendingOpens,
                   pendingLoads, lastOp, disk>>

ApplyVariantKey ==
    /\ io.fn = "variantKey"
    /\ io.out = NoOut
    /\ io' = [io EXCEPT !.out = [key1 |-> variantKey(io.arg.b1, io.arg.k1),
                                 key2 |-> variantKey(io.arg.b2, io.arg.k2)]]
    /\ UNCHANGED <<data, pools, currentSet, now, nTicks, nOpens, pendingOpens,
                   pendingLoads, lastOp, disk>>

\* setLastPack(setCode) for the next set of the sequence
ApplySetLastPack ==
    /\ io.fn = "setLastPack"
    /\ io.arg.toOpen # << >>
    /\ LET setCode == Head(io.arg.toOpen)
       IN  /\ lastPack' = setCode
           /\ recentPacks' = updateRecentPacks(recentPacks, setCode)
           /\ io' = [io EXCEPT !.arg.toOpen = Tail(@),
                               !.out.opened = Append(@, setCode)]
    /\ UNCHANGED <<points, last, cards, pools, currentSet, now, nTicks, nOpens,
                   pendingOpens, pendingLoads, lastOp, quota>>
    /\ storage' = save(Stored', storage, quota)

ApplyBuildDisplayArray ==
    /\ io.fn = "buildDisplayArray"
    /\ io.out = NoOut
    /\ io' = [io EXCEPT !.out =
                 [display |-> buildDisplayArray(io.arg.current, io.arg.recent)]]
    /\ UNCHANGED <<data, pools, currentSet, now, nTicks, nOpens, pendingOpens,
                   pendingLoads, lastOp, disk>>

NextPure ==
    \/ ApplyRollRarity
    \/ ApplyRegularDraw
    \/ ApplyVariantKey
    \/ ApplySetLastPack
    \/ ApplyBuildDisplayArray

SpecPure == InitPure /\ [][NextPure]_vars

(***************************************************************************)
(* Persistence failures: localStorage.setItem starts or stops throwing     *)
(* (the quota is exhausted or freed by another page of the origin) between *)
(* the handlers that open packs, regenerate points and reload the page.    *)
(***************************************************************************)
StorageFlips ==
    /\ quota' = IF quota = "ok" THEN "full" ELSE "ok"
    /\ UNCHANGED <<data, pools, currentSet, now, nTicks, nOpens, pendingOpens,
                   pendingLoads, lastOp, io, storage>>

NextSave ==
    \/ StorageFlips
    \/ \E freeMode \in BOOLEAN : OpenPackRequest(freeMode)
    \/ OpenPackResume
    \/ \E delay \in TickDelays : Tick(delay)
    \/ Reload

SpecSave == Init /\ [][NextSave]_vars

(***************************************************************************)
(* Loading: a document written by an earlier version of the program (or    *)
(* damaged) is under STORAGE_KEY, the page is opened and initializeState   *)
(* runs; migrateData can then be called again on the state it left.        *)
(***************************************************************************)
\* a record as the current version writes it
FullRecord ==
    [name |-> "Island", rarity |-> "common", img |-> "n1.jpg", backImg |-> "b.jpg",
     count |-> 3, fullart |-> FALSE, collectorNum |-> "1"]

\* the fields migrateCard fills, and those it fills when they are empty
Fillable == {"fullart", "backImg", "count", "name", "img"}
Emptiable == {"name", "img"}

\* the record with the fields of `missing` left out and those of `empty` set to ''
Legacy(record, missing, empty) ==
    [f \in DOMAIN record \ missing |-> IF f \in empty THEN "" ELSE record[f]]

CardShapes ==
    { Legacy(FullRecord, missing, empty) :
        missing \in SUBSET Fillable, empty \in SUBSET Emptiable }

Malformed == {JsNull, JsNumber, JsString}

\* a full-art record written before the fullart flag existed, and a current one
FullArtShapes ==
    { Legacy([FullRecord EXCEPT !.fullart = TRUE], {"fullart"}, {}),
      [FullRecord EXCEPT !.fullart = TRUE] }

NeoMaps ==
    Malformed \cup
    { ("n1" :> r1) @@ ("n7_fullart" :> r2) :
        r1 \in CardShapes \cup Malformed, r2 \in FullArtShapes }

DmuMaps == Malformed \cup { ("d2" :> FullRecord) }

Ledgers ==
    { << >> } \cup { ("neo" :> m) : m \in NeoMaps }
    \cup { ("neo" :> m) @@ ("dmu" :> d) : m \in NeoMaps, d \in DmuMaps }

LoadPoints == {7}

StoredDocs ==
    LET tops == { [points |-> p, last |-> 0] : p \in LoadPoints }
        histories ==
            UNION { { top @@ [lastPack |-> NULL],
                      top @@ [lastPack |-> NULL, recentPacks |-> << >>],
                      top @@ [lastPack |-> "neo"],
                      top @@ [lastPack |-> "neo", recentPacks |-> << "neo", "dmu" >>] }
                  : top \in tops }
    IN  histories \cup { h @@ [cards |-> c] : h \in histories, c \in Ledgers }

\* the module's state before init() has run
InitLoad ==
    /\ points = 0
    /\ now = INTERVAL - COUNTDOWN_UPDATE_INTERVAL
    /\ last = now
    /\ cards = << >>
    /\ lastPack = NULL
    /\ recentPacks = << >>
    /\ currentSet = NULL
    /\ allCards = << >>
    /\ fullArtCards = << >>
    /\ masterpieceCards = << >>
    /\ storySpotlightCards = << >>
    /\ nTicks = 0
    /\ nOpens = 0
    /\ pendingOpens = << >>
    /\ pendingLoads = {}
    /\ lastOp = NoOp
    /\ storage \in StoredDocs
    /\ quota = "ok"
    /\ io = [fn |-> "initializeState", arg |-> [doc |-> storage], out |-> NoOut]

\* initializeState()
InitializeState ==
    /\ io.fn = "initializeState"
    /\ io.out = NoOut
    /\ LET loaded == initializeState(storage, now)
       IN  /\ points' = loaded.data.points
           /\ last' = loaded.data.last
           /\ cards' = loaded.data.cards
           /\ lastPack' = loaded.data.lastPack
           /\ recentPacks' = loaded.data.recentPacks
           /\ io' = [io EXCEPT !.out = [runs |-> 1, defaults |-> loaded.defaults,
                                        saves |-> loaded.saves]]
           /\ UNCHANGED <<pools, currentSet, now, nTicks, nOpens, pendingOpens,
                          pendingLoads, lastOp, quota>>
           /\ storage' = IF loaded.saves THEN save(Stored', storage, quota)
                         ELSE storage

\* migrateData(), called on the state a first run has left
MigrateDataAgain ==
    /\ io.fn = "initializeState"
    /\ io.out # NoOut
    /\ io.out.runs = 1
    /\ LET doc == migrateData(Stored)
       IN  /\ points' = doc.points
           /\ last' = doc.last
           /\ cards' = doc.cards
           /\ lastPack' = doc.lastPack
           /\ recentPacks' = doc.recentPacks
           /\ io' = [io EXCEPT !.out = [runs |-> 2, defaults |-> io.out.defaults,
                                        saves |-> needsSave(Stored),
                                        before |-> Stored]]
           /\ UNCHANGED <<pools, currentSet, now, nTicks, nOpens, pendingOpens,
                          pendingLoads, lastOp, quota>>
           /\ storage' = IF needsSave(Stored) THEN save(Stored', storage, quota)
                         ELSE storage

NextLoad ==
    \/ InitializeState
    \/ MigrateDataAgain

SpecLoad == InitLoad /\ [][NextLoad]_vars

(***************************************************************************)
(* Sequences of ticks.  The interval timer is set to one second, but a     *)
(* browser delays or suspends timers (a background tab, a sleeping         *)
(* machine), so the time between two ticks is any time from 0 up.  io      *)
(* keeps the points and the timestamp the sequence started from.           *)
(***************************************************************************)
LongDelays ==
    { 0, COUNTDOWN_UPDATE_INTERVAL, INTERVAL - COUNTDOWN_UPDATE_INTERVAL, INTERVAL,
      2 * INTERVAL + COUNTDOWN_UPDATE_INTERVAL \div 2 }

\* the stored timestamp at the start: the epoch, or a time inside an interval
TickStarts == { 0, 7 * INTERVAL + COUNTDOWN_UPDATE_INTERVAL \div 4 }

InitTick ==
    /\ points \in InitPoints
    /\ last \in TickStarts
    /\ cards = << >>
    /\ lastPack = NULL
    /\ recentPacks = << >>
    /\ currentSet = FirstSet
    /\ allCards = Catalog[FirstSet].main
    /\ fullArtCards = Catalog[FirstSet].fullArt
    /\ masterpieceCards = Catalog[FirstSet].masterpiece
    /\ storySpotlightCards = Catalog[FirstSet].spotlight
    /\ now = last
    /\ nTicks = 0
    /\ nOpens = 0
    /\ pendingOpens = << >>
    /\ pendingLoads = {}
    /\ lastOp = NoOp
    /\ io = [fn |-> "tick", arg |-> [points |-> points, last |-> last], out |-> NoOut]
    /\ storage = Stored
    /\ quota = "ok"

TickAfter(delay) == nTicks < MaxTickSeq /\ TickBody(delay)

NextTick == \E delay \in LongDelays : TickAfter(delay)

SpecTick == InitTick /\ [][NextTick]_vars

(***************************************************************************)
(* card-renderer.js: the pack reveal of showPackModal(pack).  io holds the *)
(* pack and the state of the modal's closure: currentIndex, the child of   *)
(* the single-card view, the children of the all-cards container, the      *)
(* pending 500 ms timeouts in the order they were set (equal delays fire   *)
(* in that order), which view is displayed, allCardsShown, and whether     *)
(* singleView.onclick is set.  A slot of the pack is one of "regular",     *)
(* "god", "bonus", "secret"; a card is named by its position in the pack.  *)
(***************************************************************************)
\* pack.filter(...): the positions of the slots whose kind is in kinds
RECURSIVE filterSlots(_, _, _)
filterSlots(pack, kinds, i) ==
    IF i > Len(pack) THEN << >>
    ELSE (IF pack[i] \in kinds THEN << i >> ELSE << >>)
           \o filterSlots(pack, kinds, i + 1)

\* [...regularCards, ...bonusCards, ...secretCards]
allPackCards(pack) ==
    filterSlots(pack, {"regular", "god"}, 1) \o filterSlots(pack, {"bonus"}, 1)
      \o filterSlots(pack, {"secret"}, 1)

\* showCardInPack(card): the card replaces the single view's child, its
\* small copy is appended to the all-cards container, currentIndex++
showCardInPack(m, card) ==
    [m EXCEPT !.singleView = << card >>,
              !.packCards = Append(@, card),
              !.currentIndex = @ + 1]

\* the end of the reveal: the all-cards view replaces the single view
transitionToAllCards(m) ==
    [m EXCEPT !.display = "all", !.allCardsShown = TRUE, !.onclick = FALSE]

(* showNextCard(): with a card in the single view, the card's exit is      *)
(* animated and the work is left to a 500 ms timeout, which is given the   *)
(* card that was read at currentIndex when the timeout was set.            *)
showNextCard(m, list) ==
    IF m.currentIndex < Len(list)
    THEN IF Len(m.singleView) > 0
         THEN [m EXCEPT !.timers =
                 Append(@, [fn |-> "showCardInPack", card |-> list[m.currentIndex + 1]])]
         ELSE showCardInPack(m, list[m.currentIndex + 1])
    ELSE IF Len(m.singleView) > 0
         THEN [m EXCEPT !.timers = Append(@, [fn |-> "transition", card |-> 0])]
         ELSE transitionToAllCards(m)

\* showPackModal(pack): the first showNextCard(), then onclick is set
showPackModal(pack) ==
    LET m0 == [currentIndex |-> 0, singleView |-> << >>, packCards |-> << >>,
               timers |-> << >>, display |-> "single", allCardsShown |-> FALSE,
               onclick |-> FALSE, clicks |-> 0]
    IN  [showNextCard(m0, allPackCards(pack)) EXCEPT !.onclick = TRUE]

\* packs as generatePack returns them: dropped slots, bonus, secret, god pack
RevealPacks ==
    { << >>,
      << "regular" >>,
      << "regular", "regular" >>,
      << "regular", "regular", "bonus" >>,
      << "regular", "regular", "bonus", "secret" >>,
      << "god", "god", "god", "god", "god" >> }

InitReveal ==
    /\ points = 0
    /\ last = 0
    /\ cards = << >>
    /\ lastPack = NULL
    /\ recentPacks = << >>
    /\ currentSet = FirstSet
    /\ allCards = Catalog[FirstSet].main
    /\ fullArtCards = Catalog[FirstSet].fullArt
    /\ masterpieceCards = Catalog[FirstSet].masterpiece
    /\ storySpotlightCards = Catalog[FirstSet].spotlight
    /\ now = INTERVAL - COUNTDOWN_UPDATE_INTERVAL
    /\ nTicks = 0
    /\ nOpens = 0
    /\ pendingOpens = << >>
    /\ pendingLoads = {}
    /\ lastOp = NoOp
    /\ io \in { [fn |-> "showPackModal", arg |-> [pack |-> pack],
                  out |-> showPackModal(pack)] : pack \in RevealPacks }
    /\ storage = Stored
    /\ quota = "ok"

\* a click on the single-card view: singleView.onclick = showNextCard
SingleViewClick ==
    /\ io.fn = "showPackModal"
    /\ io.out.onclick /\ io.out.display = "single"
    /\ io.out.clicks < MaxClicks
    /\ io' = [io EXCEPT !.out =
                 [showNextCard(io.out, allPackCards(io.arg.pack))
                    EXCEPT !.clicks = @ + 1]]
    /\ UNCHANGED <<data, pools, currentSet, now, nTicks, nOpens, pendingOpens,
                   pendingLoads, lastOp, disk>>

\* the oldest pending timeout fires
ExitTimerFires ==
    /\ io.fn = "showPackModal"
    /\ io.out.timers # << >>
    /\ LET timer == Head(io.out.timers)
           m     == [io.out EXCEPT !.timers = Tail(@)]
       IN  io' = [io EXCEPT !.out =
                    IF timer.fn = "showCardInPack"
                    THEN showCardInPack(m, timer.card)
                    ELSE transitionToAllCards(m)]
    /\ UNCHANGED <<data, pools, currentSet, now, nTicks, nOpens, pendingOpens,
                   pendingLoads, lastOp, disk>>

\* a click on the all-cards view or on the modal around it: closeModal()
CloseModal ==
    /\ io.fn = "showPackModal"
    /\ io.out.display = "all" /\ io.out.allCardsShown
    /\ io' = [io EXCEPT !.out.display = "none"]
    /\ UNCHANGED <<data, pools, currentSet, now, nTicks, nOpens, pendingOpens,
                   pendingLoads, lastOp, disk>>

NextReveal ==
    \/ SingleViewClick
    \/ ExitTimerFires
    \/ CloseModal

SpecReveal == InitReveal /\ [][NextReveal]_vars

(***************************************************************************)
(* collection.js and utils.js: the collection statistics of updateStats(), *)
(* as functions of the owned records of a set and of the loaded pools.     *)
(***************************************************************************)
\* state.data.cards[setCode] || {}
getSetCards(c, setCode) == IF setCode \in DOMAIN c THEN c[setCode] ELSE << >>

\* card[field] === value, false for a record without the field
fieldIs(card, field, value) == field \in DOMAIN card /\ card[field] = value

\* card.count || 0
countOrZero(card) == IF "count" \in DOMAIN card THEN card.count ELSE 0

RECURSIVE sumCounts(_, _)
sumCounts(ownedCards, ids) ==
    IF ids = {} THEN 0
    ELSE LET id == CHOOSE x \in ids : TRUE
         IN  countOrZero(ownedCards[id]) + sumCounts(ownedCards, ids \ {id})

\* a total that counts every record once, whatever its count
totalCollected_records(ownedCards) == Cardinality(DOMAIN ownedCards)

\* Object.values(ownedCards).reduce((sum, card) => sum + (card.count || 0), 0)
totalCollected(ownedCards) == sumCounts(ownedCards, DOMAIN ownedCards)

\* Object.values(ownedCards).filter(c => c[flag] === true).length
flagOwned(ownedCards, flag) ==
    Cardinality({ id \in DOMAIN ownedCards : fieldIs(ownedCards[id], flag, TRUE) })

fullArtOwned(ownedCards) == flagOwned(ownedCards, "fullart")

masterpieceOwned(ownedCards) == flagOwned(ownedCards, "masterpiece")

storySpotlightOwned(ownedCards) == flagOwned(ownedCards, "spotlight")

\* the records that the statistics take for regular cards: fullart === false
regularIds(ownedCards) ==
    { id \in DOMAIN ownedCards : fieldIs(ownedCards[id], "fullart", FALSE) }

\* the Set of the names of the records with fullart === false
uniqueOwnedNames(ownedCards) ==
    { ownedCards[id].name : id \in regularIds(ownedCards) }

\* uniqueOwnedNames.size + fullArtOwned + storySpotlightOwned + masterpieceOwned
uniqueCardsCount(ownedCards) ==
    Cardinality(uniqueOwnedNames(ownedCards)) + fullArtOwned(ownedCards)
      + storySpotlightOwned(ownedCards) + masterpieceOwned(ownedCards)

Rarities == {"common", "uncommon", "rare", "mythic"}

(* calculateCollectionStats: total counts the cards of the main pool by    *)
(* rarity; owned counts each name of a record with fullart === false once, *)
(* under the rarity of the first such record in the order of the object's  *)
(* keys.  The ledger of the model has no key order: the record is chosen,  *)
(* which is the same wherever the records of one name agree in rarity.     *)
calculateCollectionStats(ownedCards, all) ==
    LET rarityOf(name) ==
            ownedCards[CHOOSE id \in regularIds(ownedCards) :
                          ownedCards[id].name = name].rarity
    IN  [r \in Rarities |->
           [owned |-> Cardinality({ name \in uniqueOwnedNames(ownedCards) :
                                      rarityOf(name) = r }),
            total |-> Cardinality({ i \in 1..Len(all) : all[i].rarity = r })]]

\* if (total === 0) return 0; return Math.round((owned / total) * 100)
calculatePercentage(owned, total) ==
    IF total = 0 THEN 0 ELSE (2 * owned * 100 + total) \div (2 * total)

(***************************************************************************)
(* Claims                                                                  *)
(***************************************************************************)
\* the step is the 'openPack' event with freeMode = false
PaidRequestStep ==
    \/ lastOp'.op = "refused" /\ lastOp' # lastOp
    \/ pendingOpens' = Append(pendingOpens, OpenRequest(FALSE, currentSet))

\* the step is the completion of the oldest suspended openPack call
ResumeStep ==
    /\ pendingOpens # << >>
    /\ pendingOpens' = Tail(pendingOpens)
    /\ lastOp'.op = "opened"

\* the keys of the ledger c, as <<setCode, cardId>>
Keys(c) == UNION { { <<setCode, cardId>> : cardId \in DOMAIN c[setCode] } :
                     setCode \in DOMAIN c }

\* the keys of the addCard calls in log
LogKeys(log) == { <<log[i].setCode, log[i].cardId>> : i \in 1..Len(log) }

\* the count of a key in the ledger c, 0 when there is no record
CountOf(c, key) ==
    IF key[1] \in DOMAIN c /\ key[2] \in DOMAIN c[key[1]]
    THEN c[key[1]][key[2]].count ELSE 0

\* the number of addCard calls for a key in log
Commits(log, key) ==
    Cardinality({ i \in 1..Len(log) : <<log[i].setCode, log[i].cardId>> = key })

(* C1: an open-pack request with freeMode = false while points < PACK_COST *)
(* is refused and changes nothing: points, the ledger, recentPacks and     *)
(* lastPack are the same after it, no call is left suspended, and no pack  *)
(* is returned.                                                            *)
C1_RefusedMutatesNothing ==
    [][ (points < PACK_COST /\ PaidRequestStep)
          => /\ lastOp'.op = "refused"
             /\ lastOp'.pack = << >>
             /\ UNCHANGED <<points, last, cards, recentPacks, lastPack>>
             /\ UNCHANGED <<pendingOpens, currentSet>> ]_vars

\* scenario A: a paid request was refused with 5 points, and 5 points remain
C1_Witness ==
    lastOp.op = "refused" /\ ~lastOp.freeMode /\ points = 5 /\ pendingOpens = << >>

(* C2: points is never negative, whatever the interleaving of open-pack    *)
(* requests and regeneration ticks.                                        *)
C2_PointsNonNegative == points >= 0

(* C3: an accepted open-pack request is atomic: while a request is between *)
(* its funds check and its completion, the only step that changes the      *)
(* data, the active set or the suspended calls is its own completion.      *)
C3_OpenPackAtomic ==
    [][ pendingOpens # << >>
          => \/ ResumeStep /\ Len(pendingOpens) = 1
             \/ UNCHANGED <<data, currentSet, pendingOpens>> ]_vars

(* C4: points changes only by a completed open with freeMode = false,      *)
(* which lowers it by exactly PACK_COST, and by a regeneration tick, which *)
(* raises it; a completed free open, a refused request, a set selection    *)
(* and the migration of the stored document leave it unchanged.            *)
C4_PointsChangeOnlyByOpenAndTick ==
    [][ /\ points' < points
           => ResumeStep /\ ~Head(pendingOpens).freeMode
        /\ (ResumeStep /\ ~Head(pendingOpens).freeMode)
           => points' = points - PACK_COST
        /\ (ResumeStep /\ Head(pendingOpens).freeMode)
           => points' = points
        /\ points' > points
           => nTicks' = nTicks + 1 /\ now' > now
        /\ migrateData(Stored).points = points
        /\ (lastOp'.op = "refused" \/ currentSet' # currentSet
            \/ pendingLoads' # pendingLoads \/ Len(pendingOpens') > Len(pendingOpens))
           => points' = points ]_vars

\* scenario B: a paid open completed and took the points from 6 to 0
C4_Witness ==
    lastOp.op = "opened" /\ ~lastOp.freeMode /\ points = 0 /\ Len(lastOp.pack) >= 5

(* C5: a ledger record exists iff its key was committed at least once and  *)
(* its count is the number of commits made for the key: every step leaves  *)
(* each count as it was plus the addCard calls the step made for the key   *)
(* (none, unless the step completes an open), a key has a record iff its   *)
(* count is at least 1, and no record is removed and no count lowered.     *)
C5_CountIsNumberOfCommits ==
    [][ LET committed == IF ResumeStep THEN lastOp'.log ELSE << >>
        IN  \/ cards' = cards /\ committed = << >>
            \/ \A key \in Keys(cards) \cup Keys(cards') \cup LogKeys(committed) :
                  /\ CountOf(cards', key) = CountOf(cards, key) + Commits(committed, key)
                  /\ key \in Keys(cards') <=> CountOf(cards', key) >= 1
                  /\ key \in Keys(cards) => key \in Keys(cards') ]_vars

\* a second open has committed the same card again: 5 + 5 commits of n1
C5_Witness ==
    /\ lastOp.op = "opened"
    /\ Commits(lastOp.log, <<"neo", "n1">>) = 5
    /\ CountOf(cards, <<"neo", "n1">>) = 10

(* C6: a slot's isNew flag is true iff the ledger had no record for the    *)
(* slot's key immediately before the slot's own commit: none before the    *)
(* open, and none made by an earlier slot of the same pack.                *)
C6_IsNewIffNoRecordBefore ==
    [][ ResumeStep =>
          LET pack == lastOp'.pack
              log  == lastOp'.log
          IN  /\ Len(pack) = Len(log)
              /\ \A i \in 1..Len(pack) :
                    pack[i].isNew <=>
                      /\ <<log[i].setCode, log[i].cardId>> \notin Keys(cards)
                      /\ \A j \in 1..(i - 1) : log[j] # log[i] ]_vars

\* the same variant twice in one pack: the first slot is new, the second not
C6_Witness ==
    /\ lastOp.op = "opened"
    /\ Len(lastOp.pack) >= 2
    /\ lastOp.log[1] = lastOp.log[2]
    /\ lastOp.pack[1].isNew
    /\ ~lastOp.pack[2].isNew

\* pack.some(card => card.isGodPack)
IsGodPack(pack) ==
    \E i \in 1..Len(pack) : "isGodPack" \in DOMAIN pack[i] /\ pack[i].isGodPack

HasFlag(slot, flag) == flag \in DOMAIN slot /\ slot[flag]

SlotKind(slot) ==
    IF HasFlag(slot, "isGodPack") THEN "god"
    ELSE IF HasFlag(slot, "isBonus") THEN "bonus"
    ELSE IF HasFlag(slot, "isSecret") THEN "secret"
    ELSE "regular"

\* the addCard call was for a card of the pool, under the key with the suffix
FromPool(pool, suffix, call) ==
    \E k \in 1..Len(pool) : call.cardId = pool[k].id \o suffix

\* the tiers of the fallback order
Tiers == << "common", "uncommon", "rare", "mythic" >>

TierIsEmpty(all, tier) == \A k \in 1..Len(all) : all[k].rarity # tier

SomeTierHasCards(all) == \E t \in 1..Len(Tiers) : ~TierIsEmpty(all, Tiers[t])

(* C7: a god pack has exactly 5 slots, each a card of the full-art pool    *)
(* committed under the full-art key and tagged isGodPack, with no bonus    *)
(* and no secret slot; with an empty full-art pool no pack is a god pack.  *)
C7_GodPack ==
    lastOp.op = "opened" =>
      LET pack == lastOp.pack
          log  == lastOp.log
      IN  /\ fullArtCards = << >> => ~IsGodPack(pack)
          /\ IsGodPack(pack) =>
               /\ Len(pack) = 5
               /\ Len(log) = 5
               /\ \A i \in 1..Len(pack) :
                     /\ SlotKind(pack[i]) = "god"
                     /\ ~HasFlag(pack[i], "isBonus")
                     /\ ~HasFlag(pack[i], "isSecret")
                     /\ pack[i].fullart
                     /\ FromPool(fullArtCards, "_fullart", log[i])
                     /\ <<log[i].setCode, log[i].cardId>> \in Keys(cards)

\* a god pack was opened from a full-art pool of two cards, and holds both
C7_Witness ==
    /\ lastOp.op = "opened"
    /\ IsGodPack(lastOp.pack)
    /\ Len(lastOp.pack) = 5
    /\ lastOp.log[1].cardId = "f1_fullart"
    /\ lastOp.log[5].cardId = "f2_fullart"

\* the packs of the regular branch with Math.random() = 0 at both gates
ForcedGatePacks ==
    LET st0 == [cards |-> cards, pack |-> << >>, log |-> << >>, got6thCard |-> FALSE]
    IN  secretGate(
          bonusGate(regularLoop({ st0 }, currentSet, regularDraws(allCards),
                                storySpotlightCards, 0),
                    currentSet, fullArtCards, {0}),
          currentSet, masterpieceCards, {0})

(* C8: a pack that is not a god pack is at most 5 regular slots, then at   *)
(* most one bonus slot (full-art pool, full-art key), then at most one     *)
(* secret slot (masterpiece pool, masterpiece key); a secret slot only     *)
(* after a bonus slot; at most 7 slots; and with both gates forced and no  *)
(* pool empty, exactly 5 regular slots, 1 bonus and 1 secret.              *)
C8_RegularPackShape ==
    /\ (lastOp.op = "opened" /\ ~IsGodPack(lastOp.pack)) =>
         LET pack    == lastOp.pack
             log     == lastOp.log
             n       == Len(pack)
             nReg    == Cardinality({ i \in 1..n : SlotKind(pack[i]) = "regular" })
             nBonus  == Cardinality({ i \in 1..n : SlotKind(pack[i]) = "bonus" })
             nSecret == Cardinality({ i \in 1..n : SlotKind(pack[i]) = "secret" })
         IN  /\ n = nReg + nBonus + nSecret
             /\ Len(log) = n
             /\ nReg <= 5 /\ nBonus <= 1 /\ nSecret <= 1 /\ n <= 7
             /\ \A i \in 1..nReg :
                   SlotKind(pack[i]) = "regular" /\ FromPool(allCards, "", log[i])
             /\ nBonus = 1 =>
                   /\ SlotKind(pack[nReg + 1]) = "bonus"
                   /\ fullArtCards # << >>
                   /\ FromPool(fullArtCards, "_fullart", log[nReg + 1])
             /\ nSecret = 1 =>
                   /\ nBonus = 1
                   /\ SlotKind(pack[nReg + 2]) = "secret"
                   /\ masterpieceCards # << >>
                   /\ FromPool(masterpieceCards, "_masterpiece", log[nReg + 2])
    /\ (lastOp.op = "none" /\ SomeTierHasCards(allCards)
        /\ fullArtCards # << >> /\ masterpieceCards # << >>) =>
         \A st \in ForcedGatePacks :
            /\ Len(st.pack) = 7
            /\ \A i \in 1..5 : SlotKind(st.pack[i]) = "regular"
            /\ SlotKind(st.pack[6]) = "bonus"
            /\ SlotKind(st.pack[7]) = "secret"

\* scenario D: 5 regular slots, the bonus slot and the secret slot
C8_Witness ==
    /\ lastOp.op = "opened"
    /\ Len(lastOp.pack) = 7
    /\ SlotKind(lastOp.pack[5]) = "regular"
    /\ SlotKind(lastOp.pack[6]) = "bonus"
    /\ SlotKind(lastOp.pack[7]) = "secret"
    /\ lastOp.log[6].cardId = "f2_fullart"
    /\ lastOp.log[7].cardId = "p1_masterpiece"

\* the tier the fallback chain is said to give: "none" when all are empty
ExpectedTier(all, rolled) ==
    IF ~TierIsEmpty(all, rolled) THEN rolled
    ELSE LET order == without(Tiers, rolled)
             found == { k \in 1..Len(order) : ~TierIsEmpty(all, order[k]) }
         IN  IF found = {} THEN "none"
             ELSE order[CHOOSE k \in found : \A j \in found : k <= j]

(* C9: a regular slot draws from its rolled tier, or when that tier is     *)
(* empty from the first non-empty tier in the order common, uncommon,      *)
(* rare, mythic (the rolled tier skipped), and the card has that rarity;   *)
(* the slot is dropped iff all four tiers are empty, so the regular loop   *)
(* gives exactly 5 slots whenever some tier has a card.                    *)
C9_FallbackOrder ==
    (io.fn = "regularDraw" /\ io.out # NoOut) =>
      LET all      == io.arg.all
          expected == ExpectedTier(all, rollRarity(io.arg.uRoll))
      IN  /\ io.out.card = NoCard <=> expected = "none"
          /\ expected = "none" <=> ~SomeTierHasCards(all)
          /\ expected # "none" =>
               /\ io.out.rarity = expected
               /\ io.out.card.rarity = expected
               /\ \E k \in 1..Len(all) : all[k] = io.out.card
          /\ io.out.slots = IF SomeTierHasCards(all) THEN {5} ELSE {0}

\* rolled common with no common and no uncommon card: the rare card is drawn
C9_Witness ==
    /\ io.fn = "regularDraw"
    /\ io.out # NoOut
    /\ rollRarity(io.arg.uRoll) = "common"
    /\ TierIsEmpty(io.arg.all, "common")
    /\ TierIsEmpty(io.arg.all, "uncommon")
    /\ ~TierIsEmpty(io.arg.all, "mythic")
    /\ io.out.card # NoCard
    /\ io.out.card.rarity = "rare"

\* one percent of the range of Math.random()
Percent == RandDenom \div 100

(* C10: a roll r in [0, 100) is mythic iff r < 3, rare iff 3 <= r < 10,    *)
(* uncommon iff 10 <= r < 30 and common iff r >= 30; a roll equal to a     *)
(* threshold gives the next, less rare tier.                               *)
C10_RollTiers ==
    (io.fn = "rollRarity" /\ io.out # NoOut) =>
      LET r == io.arg.u
      IN  /\ io.out.rarity = "mythic" <=> r < 3 * Percent
          /\ io.out.rarity = "rare" <=> (3 * Percent <= r /\ r < 10 * Percent)
          /\ io.out.rarity = "uncommon" <=> (10 * Percent <= r /\ r < 30 * Percent)
          /\ io.out.rarity = "common" <=> r >= 30 * Percent

\* a roll of exactly 3 is rare
C10_Witness ==
    io.fn = "rollRarity" /\ io.arg.u = 3 * Percent /\ io.out # NoOut
    /\ io.out.rarity = "rare"

(***************************************************************************)
(* C11: the key encoding is injective.  For all card ids b1, b2 and kinds  *)
(* k1, k2 of {regular, fullart, masterpiece}: the regular key is the id,   *)
(* the full-art key the id + "_fullart", the masterpiece key the id +      *)
(* "_masterpiece"; equal keys imply b1 = b2 and k1 = k2; and adding two    *)
(* different variants to a set's ledger increments two different records.  *)
(* The ids are card ids as Scryfall issues them (no underscore).           *)
(***************************************************************************)
C11_KeyInjective ==
    (io.fn = "variantKey" /\ io.out # NoOut) =>
        LET a   == io.arg
            o   == io.out
            c1  == addCard(<< >>, FirstSet, o.key1, [count |-> 0])
            c2  == addCard(c1, FirstSet, o.key2, [count |-> 0])
        IN  /\ o.key1 = (CASE a.k1 = "regular"     -> a.b1
                           [] a.k1 = "fullart"     -> a.b1 \o "_fullart"
                           [] a.k1 = "masterpiece" -> a.b1 \o "_masterpiece")
            /\ (o.key1 = o.key2) => (a.b1 = a.b2 /\ a.k1 = a.k2)
            /\ (a.b1 # a.b2 \/ a.k1 # a.k2) =>
                  /\ CountOf(c2, <<FirstSet, o.key1>>) = 1
                  /\ CountOf(c2, <<FirstSet, o.key2>>) = 1

\* two variants of one card: their keys differ
C11_Witness ==
    /\ io.fn = "variantKey"
    /\ io.out # NoOut
    /\ io.arg.b1 = io.arg.b2
    /\ io.arg.k1 = "fullart"
    /\ io.arg.k2 = "masterpiece"
    /\ io.out.key1 # io.out.key2

(***************************************************************************)
(* C12: after any sequence of opens from an empty history, recentPacks has *)
(* at most 3 entries and no duplicates, and is the up to 3 most recently   *)
(* opened distinct sets, the most recent first: its head is the set of the *)
(* last opened pack, its entries are ordered by their last open, and a set *)
(* that was opened and is not listed was last opened before every listed   *)
(* one (a 4th distinct set drops the oldest).  Opening the last opened set *)
(* again leaves the list as it is.                                         *)
(***************************************************************************)
\* the position of the last open of setCode in the sequence opened
LastOpen(opened, setCode) ==
    CHOOSE i \in 1..Len(opened) :
        /\ opened[i] = setCode
        /\ \A j \in (i + 1)..Len(opened) : opened[j] # setCode

Range(seq) == { seq[i] : i \in 1..Len(seq) }

Min(a, b) == IF a < b THEN a ELSE b

C12_RecentPacks ==
    (io.fn = "setLastPack") =>
        LET opened == io.out.opened
            r      == recentPacks
        IN  /\ Len(r) <= 3
            /\ \A i, j \in 1..Len(r) : i # j => r[i] # r[j]
            /\ Range(r) \subseteq Range(opened)
            /\ Len(r) = Min(3, Cardinality(Range(opened)))
            /\ \A i, j \in 1..Len(r) :
                  i < j => LastOpen(opened, r[i]) > LastOpen(opened, r[j])
            /\ \A x \in Range(opened) \ Range(r) : \A i \in 1..Len(r) :
                  LastOpen(opened, x) < LastOpen(opened, r[i])
            /\ opened # << >> =>
                  /\ r[1] = opened[Len(opened)]
                  /\ r[1] = lastPack
                  /\ updateRecentPacks(r, lastPack) = r

\* a 4th distinct set has been opened: the oldest is dropped
C12_Witness ==
    /\ io.fn = "setLastPack"
    /\ Cardinality(Range(io.out.opened)) = 4
    /\ Len(recentPacks) = 3
    /\ io.out.opened[1] \notin Range(recentPacks)

(***************************************************************************)
(* C13: for every active set a and history h the display tuple is          *)
(* [left, center, right] with center = a and, for c = h with a removed in  *)
(* h's order: left = right = a when c is empty, left = right = c's element *)
(* when c has one, left = c's first and right = c's second otherwise.  So  *)
(* a side slot is the center only when the history holds no other set.     *)
(***************************************************************************)
C13_DisplayTuple ==
    (io.fn = "buildDisplayArray" /\ io.out # NoOut) =>
        LET a        == io.arg.current
            h        == io.arg.recent
            other(x) == x # a
            c        == SelectSeq(h, other)
            d        == io.out.display
        IN  /\ Len(d) = 3
            /\ d[2] = a
            /\ Len(c) = 0 => (d[1] = a /\ d[3] = a)
            /\ Len(c) = 1 => (d[1] = c[1] /\ d[3] = c[1])
            /\ Len(c) >= 2 => (d[1] = c[1] /\ d[3] = c[2])
            /\ (d[1] = a \/ d[3] = a) <=> (Range(h) \subseteq {a})

\* the active set heads the history and two other sets follow it
C13_Witness ==
    /\ io.fn = "buildDisplayArray"
    /\ io.out # NoOut
    /\ Len(io.arg.recent) = 3
    /\ io.arg.recent[1] = io.arg.current
    /\ io.out.display = << io.arg.recent[2], io.arg.current, io.arg.recent[3] >>
    /\ io.arg.recent[2] # io.arg.recent[3]

(***************************************************************************)
(* C14: a click on a side slot makes that slot's set the active set and    *)
(* leaves recentPacks and lastPack as they are; recentPacks and lastPack   *)
(* change only in a step that completes an accepted open: not in a refused *)
(* open, a dropdown change, a side-slot click, a load or a tick.           *)
(***************************************************************************)
C14_HistoryOnlyOnOpen ==
    [][ /\ lastOp'.op = "rotated" =>
             /\ currentSet' \in { buildDisplayArray(currentSet, recentPacks)[position] :
                                    position \in {1, 3} }
             /\ UNCHANGED <<recentPacks, lastPack>>
        /\ (recentPacks' # recentPacks \/ lastPack' # lastPack) => ResumeStep
      ]_vars

(* the side slot showing neo was clicked after packs of neo and of dmu     *)
(* were opened: neo is the active set, the history is as the opens left it *)
C14_Witness ==
    /\ lastOp.op = "rotated"
    /\ recentPacks = << "dmu", "neo" >>
    /\ lastPack = "dmu"
    /\ currentSet = "neo"

(***************************************************************************)
(* C15: an open request issued while set S is the active set commits all   *)
(* of its cards under S and touches the history with S, also when the      *)
(* active set is changed by the dropdown or a side-slot click before the   *)
(* rip animation of the request has ended.                                 *)
(***************************************************************************)
C15_CommitsUnderRequestedSet ==
    [][ ResumeStep =>
          LET S == Head(pendingOpens).setCode
          IN  /\ \A i \in 1..Len(lastOp'.log) : lastOp'.log[i].setCode = S
              /\ lastPack' = S
              /\ recentPacks'[1] = S
      ]_vars

(***************************************************************************)
(* C16: whenever a pack is generated and committed under set S, the main,  *)
(* full-art, masterpiece and spotlight pools it is drawn from are the      *)
(* pools loaded for S, for every sequence of dropdown changes, side-slot   *)
(* clicks, set loads and open requests.                                    *)
(***************************************************************************)
C16_PoolsOfCommittedSet ==
    [][ ResumeStep =>
          LET S == lastPack'
          IN  /\ allCards = Catalog[S].main
              /\ fullArtCards = Catalog[S].fullArt
              /\ masterpieceCards = Catalog[S].masterpiece
              /\ storySpotlightCards = Catalog[S].spotlight
      ]_vars

(***************************************************************************)
(* C17: a second run of migrateData, on the state a first run has left,    *)
(* changes no field of any record or container and does not call save().   *)
(***************************************************************************)
C17_MigrationIdempotent ==
    (io.fn = "initializeState" /\ io.out # NoOut /\ io.out.runs = 2) =>
        /\ Stored = io.out.before
        /\ ~io.out.saves
        /\ ~needsSave(Stored)
        /\ migrateData(Stored) = Stored

\* the first run filled fields of a record and saved; the second has run
C17_Witness ==
    /\ io.fn = "initializeState"
    /\ io.out # NoOut
    /\ io.out.runs = 2
    /\ ~io.out.defaults
    /\ needsSave(io.arg.doc)
    /\ "neo" \in DOMAIN cards
    /\ isValidObject(cards["neo"])
    /\ isValidObject(cards["neo"]["n1"])
    /\ cards["neo"]["n1"] # io.arg.doc.cards["neo"]["n1"]

(***************************************************************************)
(* C19: migration only fills in what is missing.  In every record: a       *)
(* fullart that is undefined becomes (the key ends with "_fullart"), an    *)
(* undefined backImg the placeholder, a count that is not a number 1, an   *)
(* empty or missing name 'Unknown Card', an empty or missing img the       *)
(* placeholder; a recentPacks that is not an array becomes [lastPack] when *)
(* lastPack is set and [] otherwise.  Every field that is present and      *)
(* valid, points, the timestamp and lastPack are unchanged, and no record  *)
(* and no set is removed.                                                  *)
(***************************************************************************)
\* the record migration must leave for the stored record pre under key
Filled(pre, key, post) ==
    /\ DOMAIN post = DOMAIN pre \cup Fillable
    /\ \A f \in DOMAIN pre \ Fillable : post[f] = pre[f]
    /\ post.fullart = IF "fullart" \in DOMAIN pre THEN pre.fullart
                      ELSE (key \in {"n7_fullart"})
    /\ post.backImg = IF "backImg" \in DOMAIN pre THEN pre.backImg
                      ELSE "https://files.mtg.wiki/Magic_card_back.jpg"
    /\ post.count = IF "count" \in DOMAIN pre THEN pre.count ELSE 1
    /\ post.name = IF "name" \in DOMAIN pre /\ pre.name # "" THEN pre.name
                   ELSE "Unknown Card"
    /\ post.img = IF "img" \in DOMAIN pre /\ pre.img # "" THEN pre.img
                  ELSE "https://files.mtg.wiki/Magic_card_back.jpg"

C19_MigrationFillsOnlyMissing ==
    (io.fn = "initializeState" /\ io.out # NoOut /\ io.out.runs = 1
       /\ ~io.out.defaults) =>
        LET d == io.arg.doc
        IN  /\ points = d.points
            /\ last = d.last
            /\ lastPack = d.lastPack
            /\ recentPacks = IF "recentPacks" \in DOMAIN d THEN d.recentPacks
                             ELSE IF d.lastPack # NULL THEN << d.lastPack >>
                             ELSE << >>
            /\ DOMAIN cards = DOMAIN d.cards
            /\ \A s \in DOMAIN d.cards :
                  IF ~isValidObject(d.cards[s]) THEN cards[s] = d.cards[s]
                  ELSE /\ DOMAIN cards[s] = DOMAIN d.cards[s]
                       /\ \A k \in DOMAIN d.cards[s] :
                             IF ~isValidObject(d.cards[s][k])
                             THEN cards[s][k] = d.cards[s][k]
                             ELSE Filled(d.cards[s][k], k, cards[s][k])

(* a document without recentPacks whose last pack is neo, with a record    *)
(* that has neither count nor fullart and an empty name, and a full-art    *)
(* record without the flag: all are filled, the other fields are kept      *)
C19_Witness ==
    /\ io.fn = "initializeState"
    /\ io.out # NoOut
    /\ io.out.runs = 1
    /\ ~io.out.defaults
    /\ "recentPacks" \notin DOMAIN io.arg.doc
    /\ recentPacks = << "neo" >>
    /\ DOMAIN io.arg.doc.cards = {"neo"}
    /\ isValidObject(io.arg.doc.cards["neo"])
    /\ io.arg.doc.cards["neo"]["n1"] =
          [name |-> "", rarity |-> "common", img |-> "n1.jpg",
           backImg |-> "b.jpg", collectorNum |-> "1"]
    /\ cards["neo"]["n1"] =
          [name |-> "Unknown Card", rarity |-> "common", img |-> "n1.jpg",
           backImg |-> "b.jpg", collectorNum |-> "1", count |-> 1,
           fullart |-> FALSE]
    /\ "fullart" \notin DOMAIN io.arg.doc.cards["neo"]["n7_fullart"]
    /\ cards["neo"]["n7_fullart"].fullart
    /\ cards["neo"]["n7_fullart"].count = 3

(***************************************************************************)
(* C18: loading a stored document in which one card record, or one set's   *)
(* map, is not an object (null, a number or a string) completes, skips     *)
(* only that entry, and keeps and migrates every other record together     *)
(* with points and history: the state is not reset to the defaults.        *)
(***************************************************************************)
\* the entries of the ledger c that are not objects: sets, and <<set, key>>
BadEntries(c) ==
    { << s >> : s \in { t \in DOMAIN c : ~isValidObject(c[t]) } }
    \cup
    UNION { { << s, k >> : k \in { j \in DOMAIN c[s] : ~isValidObject(c[s][j]) } }
            : s \in { t \in DOMAIN c : isValidObject(c[t]) } }

C18_LoadSkipsOneBadEntry ==
    (io.fn = "initializeState" /\ io.out # NoOut /\ io.out.runs = 1
       /\ "cards" \in DOMAIN io.arg.doc
       /\ Cardinality(BadEntries(io.arg.doc.cards)) = 1) =>
        LET d == io.arg.doc
        IN  /\ ~io.out.defaults
            /\ points = d.points
            /\ lastPack = d.lastPack
            /\ recentPacks = ensureRequiredFields(d).recentPacks
            /\ DOMAIN cards = DOMAIN d.cards
            /\ \A s \in DOMAIN d.cards :
                  IF ~isValidObject(d.cards[s]) THEN cards[s] = d.cards[s]
                  ELSE /\ DOMAIN cards[s] = DOMAIN d.cards[s]
                       /\ \A k \in DOMAIN d.cards[s] :
                             IF ~isValidObject(d.cards[s][k])
                             THEN cards[s][k] = d.cards[s][k]
                             ELSE Filled(d.cards[s][k], k, cards[s][k])

(***************************************************************************)
(* C20: a write that fails does not raise to the caller and does not       *)
(* change the points, the ledger or the history in memory: the open runs   *)
(* to its end and leaves in memory what it leaves when the write succeeds, *)
(* and the stored document stays as it was.  A write that succeeds, also   *)
(* after writes that failed, stores the complete current data.             *)
(***************************************************************************)
C20_FailedWriteIsHarmless ==
    [][ /\ ResumeStep =>
             /\ points' = deductPoints(Head(pendingOpens).freeMode, points)
             /\ lastPack' = currentSet
             /\ recentPacks' = updateRecentPacks(recentPacks, currentSet)
             /\ Len(lastOp'.pack) = Len(lastOp'.log)
             /\ \A key \in LogKeys(lastOp'.log) :
                   CountOf(cards', key) = CountOf(cards, key) + Commits(lastOp'.log, key)
             /\ storage' = IF quota = "full" THEN storage ELSE Stored'
        /\ (nTicks' = nTicks + 1 /\ points' # points) =>
             storage' = IF quota = "full" THEN storage ELSE Stored'
        /\ quota = "full" => storage' = storage
        /\ storage' # storage => storage' = Stored'
      ]_vars

\* an open has completed while setItem throws: memory is ahead of the store
C20_Witness ==
    /\ quota = "full"
    /\ lastOp.op = "opened"
    /\ storage # Stored
    /\ storage.cards # cards
    /\ storage.lastPack # lastPack

\* the total-collected figure of a set
TotalOf(c, setCode) == totalCollected(getSetCards(c, setCode))

C22_UniqueCountsEachRecordOnce ==
    \A s \in SetCodes :
       uniqueCardsCount(getSetCards(cards, s))
         <= Cardinality(DOMAIN getSetCards(cards, s))

\* the integer roll values 0..99 that rollRarity resolves to a tier
RollsOf(tier) == { r \in 0..99 : rollRarity(r * Percent) = tier }

(* C23: the rarity roll gives each tier its share of RARITY_WEIGHTS: the   *)
(* tier that an integer roll value in 0..99 resolves to is the tier of     *)
(* exactly 60 (common), 30 (uncommon), 9 (rare) or 1 (mythic) of the 100   *)
(* integer roll values.                                                    *)
C23_RollFollowsWeights ==
    (io.fn = "rollRarity" /\ io.out # NoOut /\ io.arg.u % Percent = 0) =>
      Cardinality(RollsOf(io.out.rarity)) = RARITY_WEIGHTS[io.out.rarity]

(* C24: every accepted open-pack request eventually completes, whatever    *)
(* the pools contain: from a state with a suspended call, a state is       *)
(* reached in which no call is suspended, the slots of the returned pack   *)
(* are committed, one addCard call per slot, and the history is touched    *)
(* with the pack's set.                                                    *)
C24_AcceptedOpenCompletes ==
    (pendingOpens # << >>)
      ~> /\ pendingOpens = << >>
         /\ lastOp.op = "opened"
         /\ Len(lastOp.pack) = Len(lastOp.log)
         /\ LogKeys(lastOp.log) \subseteq Keys(cards)
         /\ lastPack = currentSet
         /\ recentPacks # << >> /\ recentPacks[1] = currentSet

\* an open has completed with every pool empty: all five slots were dropped
C24_Witness ==
    /\ allCards = << >> /\ fullArtCards = << >> /\ masterpieceCards = << >>
    /\ pendingOpens = << >>
    /\ lastOp.op = "opened"
    /\ lastOp.pack = << >>
    /\ recentPacks = << FirstSet >>

\* the key of the addCard call that slot i of a completed open made
SlotKey(op, i) == << op.log[i].setCode, op.log[i].cardId >>

C26_EachCardShownOnce ==
    io.fn = "showPackModal" =>
      LET shown == io.out.packCards
          order == allPackCards(io.arg.pack)
      IN  /\ Len(shown) <= Len(order)
          /\ \A i \in 1..Len(shown) : shown[i] = order[i]
          /\ io.out.allCardsShown => shown = order

(* C27: for ticks at non-decreasing times, the points granted in total by  *)
(* a sequence of ticks are floor((time of the last tick - initial          *)
(* timestamp) / INTERVAL), whatever the number and spacing of the ticks,   *)
(* and after each tick 0 <= now - timestamp < INTERVAL.                    *)
C27_TicksGrantElapsedIntervals ==
    (io.fn = "tick" /\ nTicks > 0) =>
      /\ points - io.arg.points = (now - io.arg.last) \div INTERVAL
      /\ 0 <= now - last
      /\ now - last < INTERVAL

\* ticks each short of an interval have added up to one: a point was granted
\* by a tick less than an interval after the tick before it
C27_Witness ==
    /\ io.fn = "tick"
    /\ nTicks >= 3
    /\ now - io.arg.last = 3 * INTERVAL - COUNTDOWN_UPDATE_INTERVAL \div 2
    /\ points = io.arg.points + 2
    /\ now - last = INTERVAL - COUNTDOWN_UPDATE_INTERVAL \div 2

\* the per-rarity statistics that updateStats() shows for the active set
ActiveStats == calculateCollectionStats(getSetCards(cards, currentSet), allCards)

(* C28: for the active set, with its pools loaded and no open in progress, *)
(* the statistics report owned <= total for each of the four rarities,     *)
(* after any sequence of pack opens and reloads with migration.            *)
C28_OwnedAtMostTotal ==
    (pendingLoads = {} /\ pendingOpens = << >>) =>
      \A r \in Rarities : ActiveStats[r].owned <= ActiveStats[r].total

\* the records of a ledger that were acquired as a full-art or masterpiece
\* variant: their key has the variant's suffix
VariantIds(ownedCards) ==
    { id \in DOMAIN ownedCards :
        endsWith(id, CARD_SUFFIXES.fullart) \/ endsWith(id, CARD_SUFFIXES.masterpiece) }

(* C29: a record acquired as a masterpiece or full-art variant is never    *)
(* counted as an owned regular card: it is not among the records with      *)
(* fullart === false, which are the records that the per-rarity statistics *)
(* and the unique-names count take, neither in the session in which it was *)
(* drawn nor after a reload with migration.                                *)
C29_VariantsAreNotRegular ==
    \A s \in DOMAIN cards :
       VariantIds(getSetCards(cards, s)) \cap regularIds(getSetCards(cards, s)) = {}

====
